---- MODULE Spec2Model ----
(***************************************************************************)
(* Evaluation scoring workflow of the project portal: the Evaluation       *)
(* documents, the spreadsheet import (POST /excel-upload), direct creation *)
(* (POST /) and the two score submission handlers (PUT /:id/faculty-score, *)
(* PUT /:id/reviewer-score).  The repository holds two route files for     *)
(* /api/evaluations: the one with the spreadsheet import and the score     *)
(* ceiling validation ("validating") and src/server/routes/evaluations.js  *)
(* without either ("legacy").  A deployment mounts one of them.            *)
(*                                                                         *)
(* A submission handler awaits twice: Evaluation.findById and              *)
(* evaluation.save().  Everything between the two awaits runs without      *)
(* interruption on the in-memory document, so a request is two atomic      *)
(* steps: the read (with the checks and the in-memory update) and the      *)
(* save.  save() sends a $set of the paths modified on the in-memory       *)
(* document; none of them bumps the document version, so a save never      *)
(* fails on a concurrent save and the last writer of a path wins.          *)
(*                                                                         *)
(* Not modelled: submittedAt/dueDate/createdAt (clock values) and the      *)
(* description text of a rubric item.  Scores are integers.                *)
(***************************************************************************)
EXTENDS Integers, Sequences, FiniteSets, Bags, TLC

\* ---------------------------------------------------------------- bounds
\* Evaluation documents in the collection, requests between their read and
\* their save, entries of a rubricScores list, rows of an uploaded sheet,
\* evaluations in the collection of the import-only specification, and
\* rows of a sheet of the seeding specification, and evaluations in the
\* collection and rows of a sheet of the repeated-import specification.
MaxEvals == 1
MaxInFlight == 2
MaxScores == 2
MaxRows == 3
MaxImported == 2
MaxSeedRows == 2
MaxStored == 3
MaxSheet == 2
\* Teams in the collection and team, project or auth requests between two
\* of their awaits.
MaxTeams == 2
MaxPending == 2
\* Project documents created and reset tokens issued.
MaxProjects == 2
MaxTokens == 3

\* ------------------------------------------------------------ JS values
\* A Number|null field: <<>> is null, <<n>> is the number n.
Null == <<>>

Num(n) == <<n>>

\* ToNumber as the relational operators apply it: null converts to 0.
ToNumber(v) == IF v = Null THEN 0 ELSE v[1]

Undefined == "undefined"

NoUser == "null"

Roles == {"faculty", "reviewer"}

\* The user the auth middleware attaches to a request of the role.
UserOf(role) == IF role = "faculty" THEN "facultyUser" ELSE "reviewerUser"

Min(a, b) == IF a < b THEN a ELSE b

Max(a, b) == IF a > b THEN a ELSE b

\* ------------------------------------------------------- Project store
\* Project documents: title -> [id, team].
ProjectTitles == {"Alpha", "Beta"}

ProjectByTitle(title) ==
  IF title = "Alpha" THEN [id |-> "pA", team |-> "tA"]
                     ELSE [id |-> "pB", team |-> "tB"]

ProjectIds == {ProjectByTitle(t).id : t \in ProjectTitles}

ProjectById(pid) == ProjectByTitle(CHOOSE t \in ProjectTitles : ProjectByTitle(t).id = pid)

\* ------------------------------------------------------ Evaluation model
\* Schema default of a score slot.
DefaultScore ==
  [value |-> Null, submittedBy |-> NoUser, comments |-> Undefined, locked |-> FALSE]

\* RubricItemSchema applied to {criterion, maxScore [, facultyScore]}: the
\* two role ceilings default to maxScore, a missing slot to the default.
RubricItem(criterion, maxScore, facultyScore) ==
  [criterion |-> criterion, maxScore |-> maxScore,
   facultyMaxScore |-> maxScore, reviewerMaxScore |-> maxScore,
   facultyScore |-> facultyScore, reviewerScore |-> DefaultScore]

\* EvaluationSchema defaults applied by Evaluation.create.
NewEvaluation(project, team, evaluationType, rubricItems, excelData, hasPrefilledScores) ==
  [project |-> project, team |-> team, evaluationType |-> evaluationType,
   rubricItems |-> rubricItems,
   facultySubmitted |-> FALSE, reviewerSubmitted |-> FALSE,
   status |-> "pending",
   excelData |-> excelData, hasPrefilledScores |-> hasPrefilledScores]

Submitted(doc, role) ==
  IF role = "faculty" THEN doc.facultySubmitted ELSE doc.reviewerSubmitted

ScoreOf(item, role) ==
  IF role = "faculty" THEN item.facultyScore ELSE item.reviewerScore

CeilingOf(item, role) ==
  IF role = "faculty" THEN item.facultyMaxScore ELSE item.reviewerMaxScore

\* --------------------------------------------------- submission handlers
\* evaluation.rubricItems.id(itemId): position of the subdocument whose _id
\* is itemId, 0 when there is none.  The _id of a rubric item is its
\* position; any other itemId names no item of this evaluation.
FindItem(doc, itemId) ==
  IF itemId \in 1..Len(doc.rubricItems) THEN itemId ELSE 0

\* Variant: both handlers test the faculty flag.
AlreadySubmittedFacultyFlag(doc, role) == doc.facultySubmitted

\* The check `if (evaluation.<role>Submitted)` that opens both handlers.
AlreadySubmitted(doc, role) == Submitted(doc, role)

\* Variant: the reviewer handler does not look at the faculty flag.
FacultyNeverMissing(doc) == FALSE

\* `if (!evaluation.facultySubmitted)` of the validating reviewer handler.
FacultyMissing(doc) == ~doc.facultySubmitted

\* Variant: the value is compared with the two roles' ceilings together.
ExceedsBothMax(doc, role, score) ==
  /\ FindItem(doc, score.itemId) # 0
  /\ ToNumber(score.value) >
       doc.rubricItems[FindItem(doc, score.itemId)].facultyMaxScore
         + doc.rubricItems[FindItem(doc, score.itemId)].reviewerMaxScore

\* `rubricItem && score.value > rubricItem.<role>MaxScore`
ExceedsMax(doc, role, score) ==
  /\ FindItem(doc, score.itemId) # 0
  /\ ToNumber(score.value) > CeilingOf(doc.rubricItems[FindItem(doc, score.itemId)], role)

InvalidEntry(doc, role, score) ==
  LET item == doc.rubricItems[FindItem(doc, score.itemId)]
  IN [criterion |-> item.criterion, maxScore |-> CeilingOf(item, role),
      submittedScore |-> score.value]

\* Variant: the list stops at the first offending entry.
FirstInvalidScore(doc, role, rubricScores) ==
  LET over == {k \in 1..Len(rubricScores) : ExceedsMax(doc, role, rubricScores[k])}
  IN IF over = {} THEN <<>>
     ELSE <<InvalidEntry(doc, role,
                         rubricScores[CHOOSE k \in over : \A j \in over : k <= j])>>

RECURSIVE InvalidScores(_, _, _)
\* The invalidScores list: one triple per offending entry, in request order.
InvalidScores(doc, role, rubricScores) ==
  IF rubricScores = <<>> THEN <<>>
  ELSE LET score == Head(rubricScores)
           rest  == InvalidScores(doc, role, Tail(rubricScores))
       IN IF ExceedsMax(doc, role, score)
            THEN <<InvalidEntry(doc, role, score)>> \o rest
            ELSE rest

\* The early return the checks of a handler take, "none" when the request
\* passes them all: already submitted, then (validating reviewer) faculty
\* first, then (validating) the score ceilings.
Rejection(rts, doc, role, rubricScores) ==
  IF AlreadySubmitted(doc, role) THEN "AlreadySubmitted"
  ELSE IF rts = "validating" /\ role = "reviewer" /\ FacultyMissing(doc) THEN "FacultyFirst"
  ELSE IF rts = "validating" /\ InvalidScores(doc, role, rubricScores) # <<>> THEN "ScoreExceedsMax"
  ELSE "none"

\* Variant: the slot is written without the lock.
UnlockedScore(rts, role, score) ==
  [value |-> score.value, submittedBy |-> UserOf(role),
   comments |-> IF rts = "legacy" THEN score.comments ELSE Undefined,
   locked |-> FALSE]

\* The object assigned to rubricItem.<role>Score: the validating handlers
\* leave comments out, the legacy ones copy score.comments.
SubmittedScore(rts, role, score) ==
  [value |-> score.value, submittedBy |-> UserOf(role),
   comments |-> IF rts = "legacy" THEN score.comments ELSE Undefined,
   locked |-> TRUE]

\* Variant: the faculty slot is written whatever the role.
SetFacultyScore(item, role, slot) == [item EXCEPT !.facultyScore = slot]

SetScore(item, role, slot) ==
  IF role = "faculty" THEN [item EXCEPT !.facultyScore = slot]
                      ELSE [item EXCEPT !.reviewerScore = slot]

\* Variant: only the first entry of the request is applied.
ApplyFirstScore(rts, items, role, rubricScores) ==
  IF rubricScores = <<>> \/ Head(rubricScores).itemId \notin 1..Len(items) THEN items
  ELSE [items EXCEPT ![Head(rubricScores).itemId] =
          SetScore(@, role, SubmittedScore(rts, role, Head(rubricScores)))]

RECURSIVE ApplyScores(_, _, _, _)
\* rubricScores.forEach: every entry that names an item overwrites that
\* item's slot for the role; entries are applied in request order.
ApplyScores(rts, items, role, rubricScores) ==
  IF rubricScores = <<>> THEN items
  ELSE LET score == Head(rubricScores)
           i     == IF score.itemId \in 1..Len(items) THEN score.itemId ELSE 0
           next  == IF i = 0 THEN items
                    ELSE [items EXCEPT ![i] = SetScore(items[i], role, SubmittedScore(rts, role, score))]
       IN ApplyScores(rts, next, role, Tail(rubricScores))

\* Positions of the rubric items a request names.
Targeted(doc, rubricScores) ==
  {FindItem(doc, rubricScores[k].itemId) : k \in 1..Len(rubricScores)} \ {0}

\* `evaluation.<role>Submitted = true`
SetSubmitted(doc, role) ==
  IF role = "faculty" THEN [doc EXCEPT !.facultySubmitted = TRUE]
                      ELSE [doc EXCEPT !.reviewerSubmitted = TRUE]

\* The status the handler assigns after setting its flag.
NextStatus(rts, doc, role) ==
  IF role = "faculty"
    THEN IF doc.reviewerSubmitted THEN "completed" ELSE "faculty-evaluated"
    ELSE IF rts = "legacy"
           THEN IF doc.facultySubmitted THEN "completed" ELSE "reviewer-evaluated"
           ELSE "completed"

EvaluationTypes == {"milestone", "final", "excel-based"}

\* The in-memory document when the handler reaches evaluation.save().
Scored(rts, doc, role, rubricScores, evaluationType) ==
  LET typed  == IF rts = "validating" /\ role = "faculty" /\ evaluationType \in EvaluationTypes
                  THEN [doc EXCEPT !.evaluationType = evaluationType] ELSE doc
      scored == [typed EXCEPT !.rubricItems = ApplyScores(rts, doc.rubricItems, role, rubricScores)]
      marked == SetSubmitted(scored, role)
  IN [marked EXCEPT !.status = NextStatus(rts, doc, role)]

\* The top-level paths the handler has modified when it reaches save(): a
\* path is modified when the value assigned differs from the value read.
ModifiedFields(read, doc) ==
  {f \in {"evaluationType", "facultySubmitted", "reviewerSubmitted", "status"} : doc[f] # read[f]}

\* What save() sends: the $set of the modified paths with the values
\* assigned to them.  A targeted slot is always modified (it carries a new
\* submittedAt); the role's flag is assigned true.
Delta(read, doc, role, rubricScores) ==
  [fields |-> ModifiedFields(read, doc),
   status |-> IF doc.status # read.status THEN doc.status ELSE Undefined,
   evaluationType |-> IF doc.evaluationType # read.evaluationType
                        THEN doc.evaluationType ELSE Undefined,
   scores |-> [i \in Targeted(read, rubricScores) |-> ScoreOf(doc.rubricItems[i], role)]]

\* Variant: the $set leaves a slot that is locked in the store alone.
SavedUnlessLocked(stored, role, delta) ==
  [stored EXCEPT
     !.evaluationType    = IF "evaluationType" \in delta.fields THEN delta.evaluationType ELSE @,
     !.facultySubmitted  = IF "facultySubmitted" \in delta.fields THEN TRUE ELSE @,
     !.reviewerSubmitted = IF "reviewerSubmitted" \in delta.fields THEN TRUE ELSE @,
     !.status            = IF "status" \in delta.fields THEN delta.status ELSE @,
     !.rubricItems       = [i \in 1..Len(@) |->
                              IF i \in DOMAIN delta.scores /\ ~ScoreOf(@[i], role).locked
                                THEN SetScore(@[i], role, delta.scores[i])
                                ELSE @[i]]]

\* Variant: the save writes both flags as the request left them, true for
\* its own role and the value it read for the other.
SavedWithBothFlags(stored, role, delta) ==
  [stored EXCEPT
     !.evaluationType    = IF "evaluationType" \in delta.fields THEN delta.evaluationType ELSE @,
     !.facultySubmitted  = "facultySubmitted" \in delta.fields,
     !.reviewerSubmitted = "reviewerSubmitted" \in delta.fields,
     !.status            = IF "status" \in delta.fields THEN delta.status ELSE @,
     !.rubricItems       = [i \in 1..Len(@) |->
                              IF i \in DOMAIN delta.scores
                                THEN SetScore(@[i], role, delta.scores[i])
                                ELSE @[i]]]

\* The stored document after the $set.
Saved(stored, role, delta) ==
  [stored EXCEPT
     !.evaluationType    = IF "evaluationType" \in delta.fields THEN delta.evaluationType ELSE @,
     !.facultySubmitted  = IF "facultySubmitted" \in delta.fields THEN TRUE ELSE @,
     !.reviewerSubmitted = IF "reviewerSubmitted" \in delta.fields THEN TRUE ELSE @,
     !.status            = IF "status" \in delta.fields THEN delta.status ELSE @,
     !.rubricItems       = [i \in 1..Len(@) |->
                              IF i \in DOMAIN delta.scores
                                THEN SetScore(@[i], role, delta.scores[i])
                                ELSE @[i]]]

\* ------------------------------------------------------ evaluation page
RECURSIVE ReduceTotal(_, _)
\* rubricItems.reduce((total, item) => total + (score || 0), 0): a null
\* score and a score of 0 both add 0.
ReduceTotal(items, type) ==
  IF items = <<>> THEN 0
  ELSE LET score == ScoreOf(items[Len(items)], type).value
       IN ReduceTotal(SubSeq(items, 1, Len(items) - 1), type)
            + (IF score = Null THEN 0 ELSE score[1])

\* calculateTotalScore(type) of the evaluation page for a loaded evaluation.
calculateTotalScore(doc, type) == ReduceTotal(doc.rubricItems, type)

\* ---------------------------------------------------- spreadsheet import
\* A cell of the sheet as sheet_to_json returns it: a number or a text.
NumberCell(n) == [kind |-> "number", num |-> n, text |-> ""]

TextCell(t) == [kind |-> "text", num |-> 0, text |-> t]

\* A row object is the sequence of its [col, cell] properties in column
\* order; sheet_to_json leaves the empty cells of a row out of its object.
Has(row, col) == \E k \in 1..Len(row) : row[k].col = col

Get(row, col) == row[CHOOSE k \in 1..Len(row) : row[k].col = col].cell

\* Object.keys(row)
Keys(row) == [k \in 1..Len(row) |-> row[k].col]

\* `!projectName` is false: the property is there and is not "" or 0.
Truthy(cell) == IF cell.kind = "number" THEN cell.num # 0 ELSE cell.text # ""

HasProjectName(row) == Has(row, "ProjectName") /\ Truthy(Get(row, "ProjectName"))

\* The property key a ProjectName value becomes (names are texts here).
ProjectNameOf(row) == Get(row, "ProjectName").text

RECURSIVE GroupNames(_)
\* Object.keys(projectGroups): the distinct project names in the order of
\* their first row; rows without a project name are skipped.
GroupNames(data) ==
  IF data = <<>> THEN <<>>
  ELSE LET front == GroupNames(SubSeq(data, 1, Len(data) - 1))
           row   == data[Len(data)]
       IN IF HasProjectName(row) /\ \A k \in 1..Len(front) : front[k] # ProjectNameOf(row)
            THEN Append(front, ProjectNameOf(row))
            ELSE front

\* The property names the empty object `projectGroups` inherits from
\* Object.prototype: `projectGroups[name]` of one of them is the inherited
\* member, so `!projectGroups[name]` is false and no array is stored.
ObjectPrototypeKeys ==
  {"constructor", "toString", "valueOf", "hasOwnProperty", "__proto__"}

\* `projectGroups[projectName].push(row)` throws a TypeError: the inherited
\* member of an Object.prototype name has no push.
GroupingThrows(data) ==
  \E k \in 1..Len(data) :
     HasProjectName(data[k]) /\ ProjectNameOf(data[k]) \in ObjectPrototypeKeys

\* Variant: the rows without a project name are kept in every group.
ProjectDataWithUnnamed(data, projectName) ==
  SelectSeq(data, LAMBDA row : ~HasProjectName(row) \/ ProjectNameOf(row) = projectName)

\* projectGroups[projectName]: the rows of the group, in sheet order.
ProjectData(data, projectName) ==
  SelectSeq(data, LAMBDA row : HasProjectName(row) /\ ProjectNameOf(row) = projectName)

\* Project.findOne({ title: projectName }) finds a project.
ProjectFound(projectName) == projectName \in ProjectTitles

defaultCriteria ==
  << [name |-> "Implementation Demonstration", maxScore |-> 20],
     [name |-> "Project Recognition", maxScore |-> 10],
     [name |-> "Black Book Draft", maxScore |-> 5],
     [name |-> "Presentation Quality", maxScore |-> 5],
     [name |-> "Contribution & Punctuality", maxScore |-> 5] >>

\* String.prototype.toLowerCase on the names that occur.
ToLowerCase(str) ==
  CASE str = "Implementation Demonstration" -> "implementation demonstration"
    [] str = "Project Recognition" -> "project recognition"
    [] str = "PROJECT RECOGNITION" -> "project recognition"
    [] str = "Black Book Draft" -> "black book draft"
    [] str = "Presentation Quality" -> "presentation quality"
    [] str = "Contribution & Punctuality" -> "contribution & punctuality"
    [] str = "Design" -> "design"
    [] str = "StudentName" -> "studentname"
    [] str = "SAPId" -> "sapid"
    [] str = "ProjectName" -> "projectname"
    [] OTHER -> str

\* The maxScore of a column: that of the default criterion with the same
\* name ignoring case, 5 when there is none.
MaxScoreOf(col) ==
  IF \E k \in 1..Len(defaultCriteria) : ToLowerCase(defaultCriteria[k].name) = ToLowerCase(col)
    THEN defaultCriteria[CHOOSE k \in 1..Len(defaultCriteria) :
                           /\ ToLowerCase(defaultCriteria[k].name) = ToLowerCase(col)
                           /\ \A j \in 1..(k - 1) :
                                ToLowerCase(defaultCriteria[j].name) # ToLowerCase(col)].maxScore
    ELSE 5

\* Object.keys(projectData[0]).filter(key => key !== "ProjectName")
CriteriaColumns(first) == SelectSeq(Keys(first), LAMBDA key : key # "ProjectName")

\* finalCriteria: the columns other than the identifying ones with their
\* maxScore, or the default criteria when the first row has no other column.
FinalCriteria(first) ==
  IF Len(CriteriaColumns(first)) > 0
    THEN LET cols == SelectSeq(CriteriaColumns(first),
                       LAMBDA col : col \notin {"ProjectName", "StudentName", "SAPId"})
         IN [k \in 1..Len(cols) |-> [name |-> cols[k], maxScore |-> MaxScoreOf(cols[k])]]
    ELSE defaultCriteria

\* parseFloat of a cell: the number of a number cell, the leading number
\* of a text; isNaN(parseFloat(cell)) for a text without one.
NumericTexts == {"4pts"}

IsNaN(cell) == cell.kind = "text" /\ cell.text \notin NumericTexts

ParseFloat(cell) ==
  IF cell.kind = "number" THEN cell.num
  ELSE IF cell.text = "4pts" THEN 4 ELSE 0

\* Variant: the score is floored at 0 and not capped.
ValidScoreUncapped(score, facultyMaxScore) == Max(0, score)

\* Math.min(Math.max(0, score), facultyMaxScore)
ValidScore(score, facultyMaxScore) == Min(Max(0, score), facultyMaxScore)

\* The facultyScore the import gives a rubric item.
ImportedScore(first, criterion, facultyMaxScore) ==
  IF /\ Has(first, criterion)
     /\ ~(Get(first, criterion).kind = "text" /\ Get(first, criterion).text = "")
     /\ ~IsNaN(Get(first, criterion))
    THEN [value |-> Num(ValidScore(ParseFloat(Get(first, criterion)), facultyMaxScore)),
          submittedBy |-> UserOf("faculty"), comments |-> "Imported from Excel",
          locked |-> TRUE]
    ELSE [value |-> Null, submittedBy |-> UserOf("faculty"), comments |-> "",
          locked |-> FALSE]

\* The rubricItems of the evaluation of a group, from its first row.
ImportedItems(first) ==
  LET criteria == FinalCriteria(first)
  IN [k \in 1..Len(criteria) |->
        RubricItem(criteria[k].name, criteria[k].maxScore,
                   ImportedScore(first, criteria[k].name, criteria[k].maxScore))]

\* Variant: every item must be seeded and locked.
HasAllPrefilled(rubricItems) ==
  \A k \in 1..Len(rubricItems) :
     rubricItems[k].facultyScore.value # Null /\ rubricItems[k].facultyScore.locked

\* rubricItems.some(item => item.facultyScore.value !== null && item.facultyScore.locked)
HasPrefilled(rubricItems) ==
  \E k \in 1..Len(rubricItems) :
     rubricItems[k].facultyScore.value # Null /\ rubricItems[k].facultyScore.locked

\* Variant: the project's id is stored as the team.
ImportedEvaluationOwnTeam(projectName, projectData, evaluationType) ==
  NewEvaluation(ProjectByTitle(projectName).id, ProjectByTitle(projectName).id,
                evaluationType, ImportedItems(projectData[1]), projectData,
                HasPrefilled(ImportedItems(projectData[1])))

\* The evaluation the import creates for a group.
ImportedEvaluation(projectName, projectData, evaluationType) ==
  NewEvaluation(ProjectByTitle(projectName).id, ProjectByTitle(projectName).team,
                evaluationType, ImportedItems(projectData[1]), projectData,
                HasPrefilled(ImportedItems(projectData[1])))

\* Variant: the failure result carries success: false.
FailureResultWithSuccess(projectName) ==
  [projectName |-> projectName, keys |-> {"projectName", "success", "error"},
   success |-> FALSE, evaluationId |-> 0, hasPrefilledScores |-> FALSE,
   error |-> "not found in the database"]

\* A result object; keys are the properties it has.
FailureResult(projectName) ==
  [projectName |-> projectName, keys |-> {"projectName", "error"},
   success |-> FALSE, evaluationId |-> 0, hasPrefilledScores |-> FALSE,
   error |-> "not found in the database"]

SuccessResult(projectName, evaluationId, hasPrefilledScores) ==
  [projectName |-> projectName,
   keys |-> {"projectName", "evaluationId", "success", "hasPrefilledScores"},
   success |-> TRUE, evaluationId |-> evaluationId,
   hasPrefilledScores |-> hasPrefilledScores, error |-> ""]

\* Variant: an evaluation that exists for the project is replaced.
ProcessGroupReplacing(acc, data, projectName, evaluationType) ==
  IF ~ProjectFound(projectName)
    THEN [acc EXCEPT !.projectResults = Append(@, FailureResult(projectName))]
    ELSE LET doc  == ImportedEvaluation(projectName, ProjectData(data, projectName), evaluationType)
             same == {e \in 1..Len(acc.evals) : acc.evals[e].project = doc.project}
         IN IF same = {}
              THEN [evals |-> Append(acc.evals, doc),
                    projectResults |-> Append(acc.projectResults,
                       SuccessResult(projectName, Len(acc.evals) + 1, doc.hasPrefilledScores))]
              ELSE LET e == CHOOSE e \in same : TRUE
                   IN [evals |-> [acc.evals EXCEPT ![e] = doc],
                       projectResults |-> Append(acc.projectResults,
                          SuccessResult(projectName, e, doc.hasPrefilledScores))]

\* One turn of `for (const projectName of Object.keys(projectGroups))` on
\* the pair of the collection and the results so far.
ProcessGroup(acc, data, projectName, evaluationType) ==
  IF ~ProjectFound(projectName)
    THEN [acc EXCEPT !.projectResults = Append(@, FailureResult(projectName))]
    ELSE LET doc == ImportedEvaluation(projectName, ProjectData(data, projectName), evaluationType)
         IN [evals |-> Append(acc.evals, doc),
             projectResults |-> Append(acc.projectResults,
                SuccessResult(projectName, Len(acc.evals) + 1, doc.hasPrefilledScores))]

RECURSIVE ProcessGroups(_, _, _, _)
\* The loop over the groups, in the order of Object.keys(projectGroups).
ProcessGroups(acc, data, names, evaluationType) ==
  IF names = <<>> THEN acc
  ELSE ProcessGroups(ProcessGroup(acc, data, Head(names), evaluationType),
                     data, Tail(names), evaluationType)

\* ---------------------------------------------------------------- state
VARIABLES
  routes,      \* which route file the deployment mounts
  evals,       \* the Evaluation collection, in creation order; _id = index
  inflight,    \* the score requests that have read and not yet saved
  lastResp,    \* the response sent last, with the request it answers
  succeeded,   \* history: the 200 answers per <<evaluation, role>>
  users,       \* the User collection: the team and the password of each user
  teams,       \* the Team collection, in creation order; _id = index
  projects,    \* the Project documents the project route has created
  tokens,      \* the Token documents ever created; a deleted one is marked
  pending,     \* the team, project and auth requests between two awaits
  reply        \* the response those routes sent last

\* The collections the evaluation routes write, and the others.
evaluationVars == <<routes, evals, inflight, lastResp, succeeded>>

accountVars == <<users, teams, projects, tokens, pending, reply>>

vars == <<routes, evals, inflight, lastResp, succeeded,
          users, teams, projects, tokens, pending, reply>>

\* The _id values a request can name.
EvalIds == 1..MaxEvals

\* A response; the fields an operation does not use keep these values.
NoResp ==
  [op |-> "none", eval |-> 0, role |-> "none",
   code |-> 0, error |-> "none", invalidScores |-> <<>>,
   data |-> <<>>, projectResults |-> <<>>]

\* bcrypt.hash of the pre-save hook of the User schema, and the sha256
\* digest of a reset token: the text is kept with the name of the function.
BcryptHash(password) == <<"bcrypt", password>>

Sha256(token) == <<"sha256", token>>

\* The registered users; none has a team, each has its first password.
UserIds == {"u1", "u2", "u3"}

NoTeam == 0

\* A response of the team, project and auth routes: its status and message.
NoReply == [code |-> 0, message |-> "none"]

Init ==
  /\ routes \in {"validating", "legacy"}
  /\ evals = <<>>
  /\ inflight = {}
  /\ lastResp = NoResp
  /\ succeeded = [pair \in EvalIds \X Roles |-> 0]
  /\ users = [u \in UserIds |-> [team |-> NoTeam, password |-> BcryptHash("initial")]]
  /\ teams = <<>>
  /\ projects = <<>>
  /\ tokens = <<>>
  /\ pending = EmptyBag
  /\ reply = NoReply

\* -------------------------------------------------------------- inputs
RubricTemplates ==
  { <<[criterion |-> "Design", maxScore |-> 5]>>,
    <<[criterion |-> "Design", maxScore |-> 5], [criterion |-> "Report", maxScore |-> 10]>> }

ScoreValues == {Num(3), Num(7)}

ItemIds == {1, 2}

ScoreEntries == [itemId : ItemIds, value : ScoreValues, comments : {Undefined}]

RubricScores == UNION {[1..n -> ScoreEntries] : n \in 0..MaxScores}

\* ------------------------------------------------------------- actions
\* POST / : create an evaluation for an existing project.
CreateEvaluation(projectId, evaluationType, rubricItems) ==
  /\ Len(evals) < MaxEvals
  /\ IF projectId \notin ProjectIds
       THEN /\ lastResp' = [NoResp EXCEPT !.op = "create", !.code = 404, !.error = "NotFound"]
            /\ UNCHANGED evals
       ELSE LET doc == NewEvaluation(projectId, ProjectById(projectId).team, evaluationType,
                         [i \in 1..Len(rubricItems) |->
                            RubricItem(rubricItems[i].criterion, rubricItems[i].maxScore, DefaultScore)],
                         <<>>, FALSE)
            IN /\ evals' = Append(evals, doc)
               /\ lastResp' = [NoResp EXCEPT !.op = "create", !.code = 201,
                                 !.eval = Len(evals) + 1]
  /\ UNCHANGED <<routes, inflight, succeeded>>
  /\ UNCHANGED accountVars

\* POST /excel-upload : one evaluation per project group of the sheet.
\* The evaluations of one upload are created one after the other; nothing
\* else touches them before the response, so the upload is one step.
ExcelUpload(hasFile, evaluationTypeField, data, capacity) ==
  LET evaluationType == IF evaluationTypeField = Undefined THEN "milestone"
                        ELSE evaluationTypeField
      resp == [NoResp EXCEPT !.op = "import", !.data = data]
      done == ProcessGroups([evals |-> evals, projectResults |-> <<>>], data,
                            GroupNames(data), evaluationType)
  IN /\ routes = "validating"
     /\ UNCHANGED <<routes, inflight, succeeded>>
     /\ UNCHANGED accountVars
     /\ IF ~hasFile
          THEN /\ lastResp' = [resp EXCEPT !.code = 400, !.error = "NoFile"]
               /\ UNCHANGED evals
        ELSE IF evaluationType \notin {"milestone", "final"}
          THEN /\ lastResp' = [resp EXCEPT !.code = 400, !.error = "InvalidType"]
               /\ UNCHANGED evals
        ELSE IF Len(data) = 0
          THEN /\ lastResp' = [resp EXCEPT !.code = 400, !.error = "InvalidFormat"]
               /\ UNCHANGED evals
        ELSE IF GroupingThrows(data)
          THEN /\ lastResp' = [resp EXCEPT !.code = 500, !.error = "ServerError"]
               /\ UNCHANGED evals
        ELSE IF Len(GroupNames(data)) = 0
          THEN /\ lastResp' = [resp EXCEPT !.code = 400, !.error = "NoProjectData"]
               /\ UNCHANGED evals
        ELSE /\ Len(done.evals) <= capacity
             /\ evals' = done.evals
             /\ lastResp' = [resp EXCEPT !.code = 201, !.projectResults = done.projectResults]

SubmitResp(e, role) ==
  [NoResp EXCEPT !.op = "submit", !.eval = e, !.role = role]

\* A score handler from its start to its first return or to its save():
\* findById, the checks in the order of the code, the in-memory update.
ScoreRequest(e, role, rubricScores, evaluationType) ==
  /\ Cardinality(inflight) < MaxInFlight
  /\ UNCHANGED <<routes, evals, succeeded>>
  /\ UNCHANGED accountVars
  /\ IF e \notin 1..Len(evals)
       THEN /\ lastResp' = [SubmitResp(e, role) EXCEPT !.code = 404, !.error = "NotFound"]
            /\ UNCHANGED inflight
       ELSE LET doc  == evals[e]
                resp == SubmitResp(e, role)
                why  == Rejection(routes, doc, role, rubricScores)
            IN IF why # "none"
                 THEN /\ lastResp' = [resp EXCEPT !.code = 400, !.error = why,
                                        !.invalidScores = IF why = "ScoreExceedsMax"
                                                            THEN InvalidScores(doc, role, rubricScores)
                                                            ELSE <<>>]
                      /\ UNCHANGED inflight
               ELSE /\ inflight' = inflight \cup
                          {[eval |-> e, role |-> role,
                            delta |-> Delta(doc, Scored(routes, doc, role, rubricScores, evaluationType),
                                            role, rubricScores)]}
                    /\ UNCHANGED lastResp

\* PUT /:id/faculty-score of the validating routes, up to its save().
FacultyScore(e, rubricScores, evaluationType) ==
  /\ routes = "validating"
  /\ ScoreRequest(e, "faculty", rubricScores, evaluationType)

\* PUT /:id/reviewer-score of the validating routes, up to its save().
ReviewerScore(e, rubricScores) ==
  /\ routes = "validating"
  /\ ScoreRequest(e, "reviewer", rubricScores, Undefined)

\* PUT /:id/faculty-score of src/server/routes/evaluations.js.
LegacyFacultyScore(e, rubricScores) ==
  /\ routes = "legacy"
  /\ ScoreRequest(e, "faculty", rubricScores, Undefined)

\* PUT /:id/reviewer-score of src/server/routes/evaluations.js.
LegacyReviewerScore(e, rubricScores) ==
  /\ routes = "legacy"
  /\ ScoreRequest(e, "reviewer", rubricScores, Undefined)

\* `await evaluation.save(); res.json(evaluation)` of a score handler.
Save(r) ==
  /\ r \in inflight
  /\ evals' = [evals EXCEPT ![r.eval] = Saved(@, r.role, r.delta)]
  /\ lastResp' = [SubmitResp(r.eval, r.role) EXCEPT !.code = 200]
  /\ succeeded' = [succeeded EXCEPT ![<<r.eval, r.role>>] = @ + 1]
  /\ inflight' = inflight \ {r}
  /\ UNCHANGED routes
  /\ UNCHANGED accountVars

\* ------------------------------------------------------- team routes
\* A handler of these routes runs from one await to the next without
\* interruption; between two awaits the handlers of other requests run.
\* A request in `pending` has had the database operation named before its
\* pc done and waits for the one its pc names.
TeamIds == 1..MaxTeams

NoProject == 0

\* new Team({ maxMembers, leader, members: [leader] }) with the defaults of
\* the schema.
NewTeam(leader, maxMembers) ==
  [leader |-> leader, members |-> <<leader>>, maxMembers |-> maxMembers,
   isOpen |-> TRUE, project |-> NoProject]

\* team.members.includes(req.user._id)
Includes(members, user) == \E k \in 1..Len(members) : members[k] = user

\* team.members.filter(member => member.toString() !== req.user._id.toString())
Without(members, user) == SelectSeq(members, LAMBDA member : member # user)

\* `pending` is a bag: two requests that agree in every field are two of
\* its elements.
Pending == BagToSet(pending)

Plus(reqs, r) == reqs (+) SetToBag({r})

Minus(reqs, r) == reqs (-) SetToBag({r})

\* The number of pending requests among those of a set.
Copies(reqs) == BagCardinality([q \in reqs |-> pending[q]])

Request(op, user, pc, team, n) ==
  [op |-> op, user |-> user, pc |-> pc, team |-> team, n |-> n,
   stale |-> FALSE, password |-> "none"]

Respond(r, code, message) == [code |-> code, message |-> message]

\* The request returns: its response is sent and it is no longer pending.
Return(r, code, message) ==
  /\ pending' = Minus(pending, r)
  /\ reply' = Respond(r, code, message)

\* The handler has issued its next database operation.
Await(r, pc) == pending' = Plus(Minus(pending, r), [r EXCEPT !.pc = pc])

\* A save that increments __v of team t: the documents of t other requests
\* have loaded and not yet saved now carry an older version.  Only the save
\* of a leave tests its version, so only a leave records it.
Outdated(reqs, t) ==
  BagOfAll(LAMBDA q : IF q.team = t /\ q.pc = "save" /\ q.op = "leave"
                        THEN [q EXCEPT !.stale = TRUE] ELSE q, reqs)

\* POST / up to `await team.save()`: the user is read and must have no team.
CreateTeam(user, maxMembers) ==
  LET r == Request("create", user, "save", NoTeam, maxMembers)
  IN /\ BagCardinality(pending) < MaxPending
     /\ Len(teams) + Copies({q \in Pending : q.op = "create" /\ q.pc = "save"}) < MaxTeams
     /\ IF users[user].team # NoTeam
          THEN /\ reply' = Respond(r, 400, "AlreadyInTeam")
               /\ UNCHANGED pending
          ELSE /\ pending' = Plus(pending, r)
               /\ UNCHANGED reply
     /\ UNCHANGED <<users, teams, projects, tokens>>
     /\ UNCHANGED evaluationVars

\* `await team.save()` of POST /: the team is inserted.  The names and the
\* codes of the teams of different requests differ, so no unique index
\* rejects the insert.
CreateTeamSave(r) ==
  /\ r \in Pending /\ r.op = "create" /\ r.pc = "save"
  /\ teams' = Append(teams, NewTeam(r.user, r.n))
  /\ pending' = Plus(Minus(pending, r), [r EXCEPT !.pc = "update", !.team = Len(teams) + 1])
  /\ UNCHANGED <<users, projects, tokens, reply>>
  /\ UNCHANGED evaluationVars

\* POST /:id/join and POST /join-by-code up to `await Team.find...`: the
\* user is read and must have no team.  A team code is modelled by the _id
\* of its team, a code of no team by an _id of no team.
JoinStart(op, user, t) ==
  LET r == Request(op, user, "team", t, 0)
  IN /\ BagCardinality(pending) < MaxPending
     /\ IF users[user].team # NoTeam
          THEN /\ reply' = Respond(r, 400, "AlreadyInTeam")
               /\ UNCHANGED pending
          ELSE /\ pending' = Plus(pending, r)
               /\ UNCHANGED reply
     /\ UNCHANGED <<users, teams, projects, tokens>>
     /\ UNCHANGED evaluationVars

Join(user, t) == JoinStart("join", user, t)

JoinByCode(user, teamCode) == JoinStart("join-by-code", user, teamCode)

\* team.members.length >= team.maxMembers
TeamFull(team) == Len(team.members) >= team.maxMembers

\* The early return of the checks on the team a join has loaded, "none"
\* when it passes them; only POST /:id/join tests the membership.
JoinRejection(op, user, team) ==
  IF ~team.isOpen THEN "NotOpen"
  ELSE IF TeamFull(team) THEN "TeamFull"
  ELSE IF op = "join" /\ Includes(team.members, user) THEN "AlreadyMember"
  ELSE "none"

\* A join from the team it loads to `await team.save()`.
JoinRead(r) ==
  /\ r \in Pending /\ r.op \in {"join", "join-by-code"} /\ r.pc = "team"
  /\ IF r.team \notin 1..Len(teams)
       THEN Return(r, 404, "TeamNotFound")
     ELSE IF JoinRejection(r.op, r.user, teams[r.team]) # "none"
       THEN Return(r, 400, JoinRejection(r.op, r.user, teams[r.team]))
     ELSE Await(r, "save") /\ UNCHANGED reply
  /\ UNCHANGED <<users, teams, projects, tokens>>
  /\ UNCHANGED evaluationVars

\* `team.members.push(user); await team.save()`: the save sends $push of
\* the user and increments __v; it does not test the version it loaded.
JoinSave(r) ==
  /\ r \in Pending /\ r.op \in {"join", "join-by-code"} /\ r.pc = "save"
  /\ teams' = [teams EXCEPT ![r.team].members = Append(@, r.user)]
  /\ pending' = Plus(Outdated(Minus(pending, r), r.team), [r EXCEPT !.pc = "update"])
  /\ UNCHANGED <<users, projects, tokens, reply>>
  /\ UNCHANGED evaluationVars

\* `await User.findByIdAndUpdate(user, { team })` that ends POST /, the two
\* joins (team is the team's _id) and the leave (team is null).
UserUpdate(r) ==
  /\ r \in Pending /\ r.op \in {"create", "join", "join-by-code", "leave"} /\ r.pc = "update"
  /\ users' = [users EXCEPT ![r.user].team = IF r.op = "leave" THEN NoTeam ELSE r.team]
  /\ Return(r, IF r.op = "create" THEN 201 ELSE 200, "none")
  /\ UNCHANGED <<teams, projects, tokens>>
  /\ UNCHANGED evaluationVars

\* Variant: the leader is treated as any member.
NobodyLeads(team, user) == FALSE

\* team.leader.toString() === req.user._id.toString()
IsLeader(team, user) == team.leader = user

\* POST /:id/leave up to `await team.save()`.
Leave(user, t) ==
  LET r == Request("leave", user, "save", t, 0)
  IN /\ BagCardinality(pending) < MaxPending
     /\ IF t \notin 1..Len(teams)
          THEN reply' = Respond(r, 404, "TeamNotFound") /\ UNCHANGED pending
        ELSE IF ~Includes(teams[t].members, user)
          THEN reply' = Respond(r, 400, "NotMember") /\ UNCHANGED pending
        ELSE IF IsLeader(teams[t], user)
          THEN reply' = Respond(r, 400, "LeaderCannotLeave") /\ UNCHANGED pending
        ELSE pending' = Plus(pending, r) /\ UNCHANGED reply
     /\ UNCHANGED <<users, teams, projects, tokens>>
     /\ UNCHANGED evaluationVars

\* `team.members = team.members.filter(...); await team.save()`: the save
\* sets the whole array and tests the version it loaded; a team that was
\* saved in between makes it throw and the handler answers 500.
LeaveSave(r) ==
  /\ r \in Pending /\ r.op = "leave" /\ r.pc = "save"
  /\ IF r.stale
       THEN /\ Return(r, 500, "ServerError")
            /\ UNCHANGED teams
       ELSE /\ teams' = [teams EXCEPT ![r.team].members = Without(@, r.user)]
            /\ pending' = Plus(Outdated(Minus(pending, r), r.team), [r EXCEPT !.pc = "update"])
            /\ UNCHANGED reply
  /\ UNCHANGED <<users, projects, tokens>>
  /\ UNCHANGED evaluationVars

\* PUT /:id with a body of isOpen only.  Its save sets isOpen and nothing
\* else, whatever was saved since the team was loaded, and the leader of a
\* team never changes: the handler is one step.
UpdateTeam(user, t, isOpen) ==
  LET r == Request("update", user, "save", t, 0)
  IN /\ IF t \notin 1..Len(teams)
          THEN reply' = Respond(r, 404, "TeamNotFound") /\ UNCHANGED teams
        ELSE IF teams[t].leader # user
          THEN reply' = Respond(r, 403, "NotLeader") /\ UNCHANGED teams
        ELSE /\ teams' = [teams EXCEPT ![t].isOpen = isOpen]
             /\ reply' = Respond(r, 200, "none")
     /\ UNCHANGED <<users, projects, tokens, pending>>
     /\ UNCHANGED evaluationVars

\* ---------------------------------------------------- project routes
\* Team.findOne({ leader: req.user._id }): the first team the user leads,
\* NoTeam when there is none.
TeamLedBy(user) ==
  IF \E t \in 1..Len(teams) : teams[t].leader = user
    THEN CHOOSE t \in 1..Len(teams) :
           /\ teams[t].leader = user
           /\ \A s \in 1..(t - 1) : teams[s].leader # user
    ELSE NoTeam

\* `if (team.project)`
HasProject(team) == team.project # NoProject

\* POST / of the project routes up to `await Project.create`.
CreateProject(user) ==
  LET r == Request("project", user, "create", TeamLedBy(user), 0)
  IN /\ BagCardinality(pending) < MaxPending
     /\ Len(projects) + Copies({q \in Pending : q.op = "project" /\ q.pc = "create"})
          < MaxProjects
     /\ IF TeamLedBy(user) = NoTeam
          THEN reply' = Respond(r, 403, "NotLeader") /\ UNCHANGED pending
        ELSE IF HasProject(teams[TeamLedBy(user)])
          THEN reply' = Respond(r, 400, "TeamHasProject") /\ UNCHANGED pending
        ELSE pending' = Plus(pending, r) /\ UNCHANGED reply
     /\ UNCHANGED <<users, teams, projects, tokens>>
     /\ UNCHANGED evaluationVars

\* `await Project.create({ team: team._id, ... })`
ProjectInsert(r) ==
  /\ r \in Pending /\ r.op = "project" /\ r.pc = "create"
  /\ projects' = Append(projects, [team |-> r.team])
  /\ pending' = Plus(Minus(pending, r), [r EXCEPT !.pc = "link", !.n = Len(projects) + 1])
  /\ UNCHANGED <<users, teams, tokens, reply>>
  /\ UNCHANGED evaluationVars

\* `await Team.findByIdAndUpdate(team._id, { project: project._id })` and
\* the 201 response.
ProjectLink(r) ==
  /\ r \in Pending /\ r.op = "project" /\ r.pc = "link"
  /\ teams' = [teams EXCEPT ![r.team].project = r.n]
  /\ Return(r, 201, "none")
  /\ UNCHANGED <<users, projects, tokens>>
  /\ UNCHANGED evaluationVars

\* ------------------------------------------------------- auth routes
\* The Token documents in the collection, by their place in `tokens`.
StoredTokens == {k \in 1..Len(tokens) : ~tokens[k].deleted}

\* Token.findOne({ token: hashedToken, type: "reset_password" })
FindToken(hashedToken) == {k \in StoredTokens : tokens[k].token = hashedToken}

\* POST /forgot-password up to `await Token.deleteMany`.  An email address
\* is modelled by the _id of its user, an unknown address by another text.
ForgotPassword(email) ==
  LET r == Request("forgot", email, "deleteMany", NoTeam, 0)
  IN /\ BagCardinality(pending) < MaxPending
     /\ Len(tokens) + Copies({q \in Pending : q.op = "forgot"
                                     /\ q.pc \in {"deleteMany", "create"}}) < MaxTokens
     /\ IF email \notin UserIds
          THEN reply' = Respond(r, 404, "UserNotFound") /\ UNCHANGED pending
          ELSE pending' = Plus(pending, r) /\ UNCHANGED reply
     /\ UNCHANGED <<users, teams, projects, tokens>>
     /\ UNCHANGED evaluationVars

\* Token.deleteMany({ userId, type: "reset_password" })
DeleteMany(toks, user) ==
  [k \in 1..Len(toks) |->
     IF toks[k].userId = user THEN [toks[k] EXCEPT !.deleted = TRUE] ELSE toks[k]]

ForgotDeleteMany(r) ==
  /\ r \in Pending /\ r.op = "forgot" /\ r.pc = "deleteMany"
  /\ tokens' = DeleteMany(tokens, r.user)
  /\ Await(r, "create")
  /\ UNCHANGED <<users, teams, projects, reply>>
  /\ UNCHANGED evaluationVars

\* crypto.randomBytes(32) and `await Token.create`: the reset token is one
\* no request has had before, here the number of the Token document; its
\* digest is stored.
ForgotCreate(r) ==
  /\ r \in Pending /\ r.op = "forgot" /\ r.pc = "create"
  /\ tokens' = Append(tokens, [userId |-> r.user, token |-> Sha256(Len(tokens) + 1),
                               deleted |-> FALSE])
  /\ pending' = Plus(Minus(pending, r), [r EXCEPT !.pc = "email", !.n = Len(tokens) + 1])
  /\ UNCHANGED <<users, teams, projects, reply>>
  /\ UNCHANGED evaluationVars

\* `await sendEmail(...)` and the response: 200 when the mail was sent or
\* the server is not in production, 500 otherwise.
ForgotRespond(r, sent, production) ==
  /\ r \in Pending /\ r.op = "forgot" /\ r.pc = "email"
  /\ IF sent \/ ~production THEN Return(r, 200, "none")
                            ELSE Return(r, 500, "EmailFailed")
  /\ UNCHANGED <<users, teams, projects, tokens>>
  /\ UNCHANGED evaluationVars

\* POST /reset-password/:token up to `await User.findById`.
ResetPassword(token, password) ==
  LET found == FindToken(Sha256(token))
      k     == CHOOSE k \in found : TRUE
      r     == [Request("reset", "none", "user", NoTeam, 0) EXCEPT !.password = password]
  IN /\ BagCardinality(pending) < MaxPending
     /\ IF found = {}
          THEN reply' = Respond(r, 400, "InvalidToken") /\ UNCHANGED pending
          ELSE /\ pending' = Plus(pending, [r EXCEPT !.user = tokens[k].userId, !.n = k])
               /\ UNCHANGED reply
     /\ UNCHANGED <<users, teams, projects, tokens>>
     /\ UNCHANGED evaluationVars

\* `await User.findById(tokenDoc.userId)` up to `await user.save()`.
ResetFindUser(r) ==
  /\ r \in Pending /\ r.op = "reset" /\ r.pc = "user"
  /\ IF r.user \notin UserIds
       THEN Return(r, 404, "UserNotFound")
       ELSE Await(r, "save") /\ UNCHANGED reply
  /\ UNCHANGED <<users, teams, projects, tokens>>
  /\ UNCHANGED evaluationVars

\* `user.password = password; await user.save()`: the pre-save hook stores
\* the hash of the new password.
ResetSave(r) ==
  /\ r \in Pending /\ r.op = "reset" /\ r.pc = "save"
  /\ users' = [users EXCEPT ![r.user].password = BcryptHash(r.password)]
  /\ Await(r, "delete")
  /\ UNCHANGED <<teams, projects, tokens, reply>>
  /\ UNCHANGED evaluationVars

\* `await Token.deleteOne({ _id: tokenDoc._id })` and the 200 response.
ResetDelete(r) ==
  /\ r \in Pending /\ r.op = "reset" /\ r.pc = "delete"
  /\ tokens' = [tokens EXCEPT ![r.n].deleted = TRUE]
  /\ Return(r, 200, "none")
  /\ UNCHANGED <<users, teams, projects>>
  /\ UNCHANGED evaluationVars

\* A property of a row object, none for an empty cell.
Prop(col, cells) == IF cells = <<>> THEN <<>> ELSE <<[col |-> col, cell |-> cells[1]]>>

Optional(cells) == {<<>>} \cup {<<c>> : c \in cells}

\* Uploads of the full system: one row of a known or an unknown project
\* with a score over the ceiling in column Design, or no row at all.
UploadRows ==
  { Prop("ProjectName", <<TextCell(n)>>) \o Prop("Design", <<NumberCell(7)>>) :
      n \in {"Alpha", "Ghost"} }

UploadData == {<<>>} \cup {<<row>> : row \in UploadRows}

\* Uploads of the import-only specification: up to MaxRows rows, each with
\* or without a project name (two known titles, an unknown one, and a name
\* every JavaScript object inherits) and with or without a Design cell.
ImportRows ==
  { Prop("ProjectName", n) \o Prop("Design", c) :
      n \in Optional({TextCell("Alpha"), TextCell("Beta"), TextCell("Ghost"),
                      TextCell("constructor")}),
      c \in Optional({NumberCell(3), NumberCell(7), TextCell("abc")}) }

ImportData == UNION {[1..n -> ImportRows] : n \in 0..MaxRows}

Next ==
  \/ \E p \in ProjectIds \cup {"pX"}, rubricItems \in RubricTemplates :
       CreateEvaluation(p, "milestone", rubricItems)
  \/ \E hasFile \in BOOLEAN, t \in {Undefined, "weekly"}, data \in UploadData :
       ExcelUpload(hasFile, t, data, MaxEvals)
  \/ \E e \in EvalIds, rs \in RubricScores, t \in {Undefined, "final"} :
       FacultyScore(e, rs, t)
  \/ \E e \in EvalIds, rs \in RubricScores : ReviewerScore(e, rs)
  \/ \E e \in EvalIds, rs \in RubricScores : LegacyFacultyScore(e, rs)
  \/ \E e \in EvalIds, rs \in RubricScores : LegacyReviewerScore(e, rs)
  \/ \E r \in inflight : Save(r)

Spec == Init /\ [][Next]_vars

\* The import on its own: one upload of any sheet of ImportData as the
\* first request of a deployment of the validating routes.
InitImport == Init /\ routes = "validating"

NextImport ==
  /\ lastResp = NoResp
  /\ \E data \in ImportData : ExcelUpload(TRUE, Undefined, data, MaxImported)

SpecImport == InitImport /\ [][NextImport]_vars

\* The seeding of scores on its own: one upload of a sheet of one known
\* project whose first row has any mix of a Design cell (numbers below,
\* within and over the ceiling, texts with and without a leading number,
\* the empty text),
\* a cell of a default criterion in another case, and an SAPId cell; a
\* second row of the group may follow.
SeedFirstRows ==
  { Prop("ProjectName", <<TextCell("Alpha")>>) \o Prop("Design", d)
      \o Prop("PROJECT RECOGNITION", r) \o Prop("SAPId", i) :
      d \in Optional({NumberCell(-2), NumberCell(0), NumberCell(3), NumberCell(7),
                      TextCell("abc"), TextCell("4pts"), TextCell("")}),
      r \in Optional({NumberCell(7), NumberCell(12)}),
      i \in Optional({NumberCell(60)}) }

SeedOtherRows ==
  { Prop("ProjectName", <<TextCell("Alpha")>>) \o Prop("Design", d) :
      d \in Optional({NumberCell(3)}) }

SeedData ==
  UNION { {<<first>> \o rest : first \in SeedFirstRows, rest \in [1..n -> SeedOtherRows]} :
            n \in 0..(MaxSeedRows - 1) }

NextSeed ==
  /\ lastResp = NoResp
  /\ \E data \in SeedData : ExcelUpload(TRUE, "final", data, 1)

SpecSeed == InitImport /\ [][NextSeed]_vars

\* Imports into a collection that is in use: an evaluation of project Alpha
\* is created and scored by the faculty while sheets of up to MaxSheet rows
\* naming Alpha, Beta or an unknown project are uploaded, any number of
\* times, until the collection holds MaxStored evaluations.
ReimportRows ==
  UploadRows \cup {Prop("ProjectName", <<TextCell("Beta")>>)}

ReimportData == UNION {[1..n -> ReimportRows] : n \in 0..MaxSheet}

NextReimport ==
  \/ \E rubricItems \in RubricTemplates : CreateEvaluation("pA", "milestone", rubricItems)
  \/ \E data \in ReimportData : ExcelUpload(TRUE, Undefined, data, MaxStored)
  \/ \E e \in EvalIds : FacultyScore(e, <<[itemId |-> 1, value |-> Num(3), comments |-> Undefined]>>, Undefined)
  \/ \E r \in inflight : Save(r)

SpecReimport == InitImport /\ [][NextReimport]_vars

\* The range of the stored values on its own: under the validating routes
\* an evaluation of project Alpha is created and each role submits one
\* entry whose value is below 0, within the ceilings or over them.
RangeValues == {Num(-1), Num(3), Num(7)}

RangeScores == {<<score>> : score \in [itemId : ItemIds, value : RangeValues, comments : {Undefined}]}

NextRange ==
  \/ \E rubricItems \in RubricTemplates : CreateEvaluation("pA", "milestone", rubricItems)
  \/ \E e \in EvalIds, rs \in RangeScores : FacultyScore(e, rs, Undefined)
  \/ \E e \in EvalIds, rs \in RangeScores : ReviewerScore(e, rs)
  \/ \E r \in inflight : Save(r)

SpecRange == InitImport /\ [][NextRange]_vars

\* The team routes on their own: user u1 creates teams of one or two
\* members, u2 joins them by _id and u3 by code, u1 and u2 ask to leave
\* them, and u1 closes and reopens them, with up to MaxPending requests
\* between awaits.
NextTeams ==
  \/ \E maxMembers \in {1, 2} : CreateTeam("u1", maxMembers)
  \/ \E t \in TeamIds : Join("u2", t)
  \/ \E teamCode \in TeamIds : JoinByCode("u3", teamCode)
  \/ \E user \in {"u1", "u2"}, t \in TeamIds : Leave(user, t)
  \/ \E t \in TeamIds, isOpen \in BOOLEAN : UpdateTeam("u1", t, isOpen)
  \/ \E r \in Pending : CreateTeamSave(r)
  \/ \E r \in Pending : JoinRead(r)
  \/ \E r \in Pending : JoinSave(r)
  \/ \E r \in Pending : LeaveSave(r)
  \/ \E r \in Pending : UserUpdate(r)

SpecTeams == InitImport /\ [][NextTeams]_vars

\* The project route on its own: u1 and u2 create teams and u1, u2 and u3
\* ask to create projects, with up to MaxPending requests between awaits.
NextProjects ==
  \/ \E user \in {"u1", "u2"} : CreateTeam(user, 2)
  \/ \E user \in UserIds : CreateProject(user)
  \/ \E r \in Pending : CreateTeamSave(r)
  \/ \E r \in Pending : UserUpdate(r)
  \/ \E r \in Pending : ProjectInsert(r)
  \/ \E r \in Pending : ProjectLink(r)

SpecProjects == InitImport /\ [][NextProjects]_vars

\* The password reset on its own: reset mails are asked for u1, u2 and an
\* unknown address, and passwords are reset with any of the tokens that
\* are or will be issued, with up to MaxPending requests between awaits.
NextAuth ==
  \/ \E email \in {"u1", "u2", "nobody"} : ForgotPassword(email)
  \/ \E token \in 1..MaxTokens, password \in {"p1", "p2"} : ResetPassword(token, password)
  \/ \E r \in Pending : ForgotDeleteMany(r)
  \/ \E r \in Pending : ForgotCreate(r)
  \/ \E r \in Pending, sent \in BOOLEAN, production \in BOOLEAN : ForgotRespond(r, sent, production)
  \/ \E r \in Pending : ResetFindUser(r)
  \/ \E r \in Pending : ResetSave(r)
  \/ \E r \in Pending : ResetDelete(r)

SpecAuth == InitImport /\ [][NextAuth]_vars

\* ===================================================================
\* Properties.  They read the documents through the accessors below and
\* not through the operators of the handlers.
Flag(doc, role) ==
  IF role = "faculty" THEN doc.facultySubmitted ELSE doc.reviewerSubmitted

Slot(doc, i, role) ==
  IF role = "faculty" THEN doc.rubricItems[i].facultyScore
                      ELSE doc.rubricItems[i].reviewerScore

Ceiling(doc, i, role) ==
  IF role = "faculty" THEN doc.rubricItems[i].facultyMaxScore
                      ELSE doc.rubricItems[i].reviewerMaxScore

Items(doc) == 1..Len(doc.rubricItems)

Stored == 1..Len(evals)

\* The entries of a request that name an item and exceed its ceiling.
Offending(doc, role, rs) ==
  {k \in 1..Len(rs) : /\ rs[k].itemId \in Items(doc)
                      /\ rs[k].value # Null
                      /\ rs[k].value[1] > Ceiling(doc, rs[k].itemId, role)}

\* The items a request names and the value its last entry for one supplies.
Named(doc, rs) == {rs[k].itemId : k \in 1..Len(rs)} \cap Items(doc)

LastValue(rs, i) ==
  rs[CHOOSE k \in 1..Len(rs) :
       rs[k].itemId = i /\ \A m \in (k + 1)..Len(rs) : rs[m].itemId # i].value

TypeFields == {Undefined, "final"}

\* C1: once a submission of a role has been answered 200 on an evaluation,
\* every later submission of that role on that evaluation is answered 400
\* AlreadySubmitted, whatever its payload.
C1_SecondSubmissionRejected ==
  /\ \A e \in Stored, role \in Roles :
       succeeded[<<e, role>>] > 0 =>
         \A rs \in RubricScores : Rejection(routes, evals[e], role, rs) = "AlreadySubmitted"
  /\ (/\ lastResp.op = "submit"
      /\ lastResp.eval \in Stored
      /\ succeeded[<<lastResp.eval, lastResp.role>>] > 0
      /\ lastResp.code # 200)
       => (lastResp.code = 400 /\ lastResp.error = "AlreadySubmitted")

C1_Witness ==
  /\ lastResp.op = "submit" /\ lastResp.error = "AlreadySubmitted" /\ lastResp.code = 400
  /\ succeeded[<<lastResp.eval, lastResp.role>>] > 0

StatusStep(a, b) ==
  \/ a = b
  \/ <<a, b>> \in { <<"pending", "faculty-evaluated">>, <<"pending", "reviewer-evaluated">>,
                    <<"faculty-evaluated", "completed">>, <<"reviewer-evaluated", "completed">> }

\* C3: status moves only pending -> faculty-evaluated -> completed or
\* pending -> reviewer-evaluated -> completed, and never leaves completed.
C3_StatusPath ==
  [][\A e \in Stored : StatusStep(evals[e].status, evals'[e].status)]_vars

\* Both roles have saved, nothing is in flight, and the status is not
\* completed: the reviewer read before the faculty saved.
C3_Witness ==
  \E e \in Stored :
     /\ evals[e].facultySubmitted /\ evals[e].reviewerSubmitted
     /\ evals[e].status = "reviewer-evaluated"
     /\ inflight = {}

\* C4: once a role's slot of a rubric item is locked, no later step changes
\* the value of that slot.
C4_LockedValueKept ==
  [][\A e \in Stored, role \in Roles : \A i \in Items(evals[e]) :
       Slot(evals[e], i, role).locked =>
         Slot(evals'[e], i, role).value = Slot(evals[e], i, role).value]_vars

\* An imported evaluation whose seeded, locked Design score of 5 has been
\* replaced by the 3 of a faculty submission.
C4_Witness ==
  \E e \in Stored :
     /\ evals[e].hasPrefilledScores
     /\ evals[e].facultySubmitted
     /\ Slot(evals[e], 1, "faculty").value = Num(3)
     /\ Slot(evals[e], 1, "faculty").comments # "Imported from Excel"

\* A slot a submission has written (the import marks its own with a comment).
BySubmission(slot) == slot.locked /\ slot.comments # "Imported from Excel"

\* A save of a request whose role has been saved since the request read.
LateSave(r) == Save(r) /\ Flag(evals[r.eval], r.role)

FlagName(role) == IF role = "faculty" THEN "facultySubmitted" ELSE "reviewerSubmitted"

\* C6: a submission that passes the checks is saved with the role's flag
\* true and, for every item it names, the slot locked and holding the value
\* supplied for the item (by the last entry that names it); the stored
\* evaluation holds exactly that when the submission is answered 200.
C6_SubmissionStored ==
  /\ [](\A e \in Stored, role \in Roles, rs \in RubricScores, t \in TypeFields :
          Rejection(routes, evals[e], role, rs) = "none" =>
            LET d == Delta(evals[e], Scored(routes, evals[e], role, rs, t), role, rs)
            IN /\ FlagName(role) \in d.fields
               /\ DOMAIN d.scores = Named(evals[e], rs)
               /\ \A i \in Named(evals[e], rs) :
                    d.scores[i].value = LastValue(rs, i) /\ d.scores[i].locked)
  /\ [][\A r \in inflight : Save(r) =>
          /\ lastResp'.code = 200
          /\ Flag(evals'[r.eval], r.role)
          /\ \A i \in DOMAIN r.delta.scores :
               Slot(evals'[r.eval], i, r.role) = r.delta.scores[i]]_vars

C6_Witness ==
  /\ lastResp.op = "submit" /\ lastResp.code = 200 /\ lastResp.role = "reviewer"
  /\ evals[lastResp.eval].reviewerSubmitted
  /\ Len(evals[lastResp.eval].rubricItems) = 2
  /\ Slot(evals[lastResp.eval], 1, "reviewer") =
       [value |-> Num(3), submittedBy |-> "reviewerUser", comments |-> Undefined, locked |-> TRUE]
  /\ Slot(evals[lastResp.eval], 2, "reviewer").value = Num(7)
  /\ Slot(evals[lastResp.eval], 2, "reviewer").locked

\* C7: facultySubmitted and reviewerSubmitted never go from true to false,
\* so each changes at most once, from false to true.
C7_FlagsOnlyRise ==
  [][\A e \in Stored, role \in Roles : Flag(evals[e], role) => Flag(evals'[e], role)]_vars

C7_Witness ==
  \E e \in Stored :
     /\ evals[e].facultySubmitted /\ evals[e].reviewerSubmitted
     /\ succeeded[<<e, "faculty">>] = 2

\* C8: once both flags of an evaluation are true, no step changes any field
\* of that evaluation.
C8_FrozenWhenBothSubmitted ==
  [][\A e \in Stored :
       (evals[e].facultySubmitted /\ evals[e].reviewerSubmitted) => evals'[e] = evals[e]]_vars

\* A faculty save has landed on an evaluation both roles had submitted:
\* the status is back from completed to faculty-evaluated.
C8_Witness ==
  \E e \in Stored :
     /\ evals[e].facultySubmitted /\ evals[e].reviewerSubmitted
     /\ evals[e].status = "faculty-evaluated"
     /\ succeeded[<<e, "faculty">>] = 2 /\ succeeded[<<e, "reviewer">>] = 1

\* The k of the j-th offending entry, in request order.
NthOffending(doc, role, rs, j) ==
  CHOOSE k \in Offending(doc, role, rs) :
     Cardinality({m \in Offending(doc, role, rs) : m < k}) = j - 1

\* C9: the invalidScores of a ScoreExceedsMax answer holds one {criterion,
\* maxScore, submittedScore} triple for every entry over its item's ceiling,
\* in request order, and nothing else.
C9_AllOffendersReported ==
  /\ \A e \in Stored, role \in Roles, rs \in RubricScores :
       Rejection(routes, evals[e], role, rs) = "ScoreExceedsMax" =>
         LET inv == InvalidScores(evals[e], role, rs)
         IN /\ Len(inv) = Cardinality(Offending(evals[e], role, rs))
            /\ Len(inv) > 0
            /\ \A j \in 1..Len(inv) :
                 LET entry == rs[NthOffending(evals[e], role, rs, j)]
                 IN inv[j] = [criterion |-> evals[e].rubricItems[entry.itemId].criterion,
                              maxScore |-> Ceiling(evals[e], entry.itemId, role),
                              submittedScore |-> entry.value]
  /\ lastResp.error = "ScoreExceedsMax" =>
       /\ lastResp.invalidScores # <<>>
       /\ \A j \in 1..Len(lastResp.invalidScores) :
            lastResp.invalidScores[j].submittedScore[1] > lastResp.invalidScores[j].maxScore

C9_Witness ==
  /\ lastResp.op = "submit" /\ lastResp.error = "ScoreExceedsMax"
  /\ Len(lastResp.invalidScores) = 2

\* The distinct project names of the rows of a sheet that have one.
SheetGroups(data) ==
  {Get(data[k], "ProjectName").text :
     k \in {j \in 1..Len(data) : Has(data[j], "ProjectName")
                                   /\ Get(data[j], "ProjectName").text # ""}}

ResultsFor(name) ==
  {k \in 1..Len(lastResp.projectResults) : lastResp.projectResults[k].projectName = name}

EvaluationsFor(name) ==
  {e \in Stored : name \in ProjectTitles /\ evals[e].project = ProjectByTitle(name).id}

\* C10: the answer to an upload of a sheet with at least one named row
\* holds exactly one result per distinct project name; a name that is a
\* project title has one new evaluation and a success result, any other
\* name has no evaluation and a failure result with a not-found error.
C10_OneResultPerGroup ==
  (lastResp.op = "import" /\ SheetGroups(lastResp.data) # {}) =>
     /\ lastResp.code = 201
     /\ Len(lastResp.projectResults) = Cardinality(SheetGroups(lastResp.data))
     /\ Len(evals) = Cardinality(SheetGroups(lastResp.data) \cap ProjectTitles)
     /\ \A name \in SheetGroups(lastResp.data) :
          /\ Cardinality(ResultsFor(name)) = 1
          /\ \A k \in ResultsFor(name) :
               IF name \in ProjectTitles
                 THEN /\ lastResp.projectResults[k].success
                      /\ EvaluationsFor(name) = {lastResp.projectResults[k].evaluationId}
                 ELSE /\ "error" \in lastResp.projectResults[k].keys
                      /\ lastResp.projectResults[k].error = "not found in the database"
                      /\ EvaluationsFor(name) = {}

\* The same for the sheets none of whose names is one every object
\* inherits: for those the import does as C10 says.
C10_OrdinaryNames ==
  (\A name \in SheetGroups(lastResp.data) : name \notin ObjectPrototypeKeys)
     => C10_OneResultPerGroup

\* Two known titles and an unknown one in one sheet: two successes, one
\* failure and two new evaluations.
C10_Witness ==
  /\ lastResp.op = "import" /\ lastResp.code = 201
  /\ SheetGroups(lastResp.data) = {"Alpha", "Beta", "Ghost"}
  /\ Len(evals) = 2
  /\ Len(lastResp.projectResults) = 3

\* A sheet with a row named "constructor" is answered 500 with no result.
C10_Crash ==
  /\ lastResp.op = "import" /\ lastResp.code = 500
  /\ "Alpha" \in SheetGroups(lastResp.data)
  /\ evals = <<>>

\* min(max(0, v), maxScore), written out.
Clamped(v, maxScore) == IF v < 0 THEN 0 ELSE IF v > maxScore THEN maxScore ELSE v

\* The properties of the first row of an imported evaluation that are
\* criterion columns with a numeric cell.
NumericCriteria(doc) ==
  {k \in 1..Len(doc.excelData[1]) :
     /\ doc.excelData[1][k].col \notin {"ProjectName", "StudentName", "SAPId"}
     /\ doc.excelData[1][k].cell.kind = "number"}

\* C11: every criterion column with a numeric cell v in the first row of a
\* group has exactly one rubric item in the imported evaluation, and that
\* item's faculty score is min(max(0, v), maxScore), locked, with comments
\* "Imported from Excel".
C11_NumericCellSeeded ==
  \A e \in Stored : \A k \in NumericCriteria(evals[e]) :
     LET col  == evals[e].excelData[1][k].col
         v    == evals[e].excelData[1][k].cell.num
         mine == {i \in Items(evals[e]) : evals[e].rubricItems[i].criterion = col}
     IN /\ Cardinality(mine) = 1
        /\ \A i \in mine :
             /\ Slot(evals[e], i, "faculty").value =
                  Num(Clamped(v, evals[e].rubricItems[i].maxScore))
             /\ Slot(evals[e], i, "faculty").locked
             /\ Slot(evals[e], i, "faculty").comments = "Imported from Excel"

\* A Design cell of 7 stored as 5 next to a cell of 12 stored as 10.
C11_Witness ==
  \E e \in Stored :
     /\ \E k \in NumericCriteria(evals[e]) :
          /\ evals[e].excelData[1][k].col = "Design"
          /\ evals[e].excelData[1][k].cell.num = 7
     /\ \E k \in NumericCriteria(evals[e]) :
          /\ evals[e].excelData[1][k].col = "PROJECT RECOGNITION"
          /\ evals[e].excelData[1][k].cell.num = 12
     /\ Len(evals[e].rubricItems) = 2
     /\ evals[e].rubricItems[1].maxScore = 5
     /\ Slot(evals[e], 1, "faculty").value = Num(5)
     /\ Slot(evals[e], 2, "faculty").value = Num(10)
     /\ Slot(evals[e], 1, "faculty").locked

\* An evaluation as POST / leaves it: nothing submitted, no item scored.
Unscored(doc) ==
  /\ doc.excelData = <<>>
  /\ doc.status = "pending" /\ ~doc.facultySubmitted /\ ~doc.reviewerSubmitted
  /\ \A i \in Items(doc), role \in Roles : Slot(doc, i, role).value = Null

\* The requests that supply one value per rubric item, each in its ceiling.
OnePerItem(doc, role) ==
  {rs \in RubricScores :
     /\ Len(rs) = Len(doc.rubricItems)
     /\ {rs[k].itemId : k \in 1..Len(rs)} = Items(doc)
     /\ Offending(doc, role, rs) = {}}

RECURSIVE SumOfValues(_)
SumOfValues(rs) ==
  IF rs = <<>> THEN 0
  ELSE (IF Head(rs).value = Null THEN 0 ELSE Head(rs).value[1]) + SumOfValues(Tail(rs))

\* The stored evaluation after a request of a role that reads doc and saves
\* with nothing in between.
AfterSubmission(doc, role, rs) ==
  Saved(doc, role, Delta(doc, Scored(routes, doc, role, rs, Undefined), role, rs))

\* C12: on an unscored evaluation a faculty submission and then a reviewer
\* submission, each of one in-ceiling value per rubric item, both succeed;
\* afterwards each role's total is the sum of the values it submitted and
\* the status is completed.
C12_RoundTripTotals ==
  \A e \in Stored :
     Unscored(evals[e]) =>
       \A rsF \in OnePerItem(evals[e], "faculty") :
          LET afterF == AfterSubmission(evals[e], "faculty", rsF)
          IN /\ Rejection(routes, evals[e], "faculty", rsF) = "none"
             /\ \A rsR \in OnePerItem(evals[e], "reviewer") :
                  LET afterR == AfterSubmission(afterF, "reviewer", rsR)
                  IN /\ Rejection(routes, afterF, "reviewer", rsR) = "none"
                     /\ calculateTotalScore(afterR, "faculty") = SumOfValues(rsF)
                     /\ calculateTotalScore(afterR, "reviewer") = SumOfValues(rsR)
                     /\ afterR.status = "completed"

\* Faculty 3 and 7, then reviewer 3 and 3, on [Design 5, Report 10]: the
\* totals are 10 and 6 and the status is completed.
C12_Witness ==
  \E e \in Stored :
     /\ evals[e].excelData = <<>> /\ Len(evals[e].rubricItems) = 2
     /\ succeeded[<<e, "faculty">>] = 1 /\ succeeded[<<e, "reviewer">>] = 1
     /\ inflight = {}
     /\ lastResp.op = "submit" /\ lastResp.role = "reviewer" /\ lastResp.code = 200
     /\ calculateTotalScore(evals[e], "faculty") = 10
     /\ calculateTotalScore(evals[e], "reviewer") = 6
     /\ evals[e].status = "completed"

C14_ImportOnlyAdds ==
  [][(lastResp'.op = "import" /\ lastResp' # lastResp) =>
       /\ Len(evals') >= Len(evals)
       /\ \A e \in Stored : evals'[e] = evals[e]]_vars

\* An import has added an evaluation of project Alpha after one that was
\* created for Alpha and submitted by the faculty.
C14_Witness ==
  /\ lastResp.op = "import" /\ lastResp.code = 201
  /\ Len(evals) >= 2
  /\ evals[1].excelData = <<>> /\ evals[1].facultySubmitted
  /\ evals[2].excelData # <<>> /\ evals[2].project = evals[1].project

\* The rows of a sheet that have no ProjectName value.
Unnamed(data) == {k \in 1..Len(data) : ~Has(data[k], "ProjectName")}

\* C15: an upload of no rows is answered 400 InvalidFormat and one of rows
\* none of which has a ProjectName is answered 400, both creating nothing;
\* rows without a ProjectName are in no group: no result is about them and
\* no evaluation holds them.
C15_EmptyAndUnnamedRows ==
  lastResp.op = "import" =>
    /\ Len(lastResp.data) = 0 =>
         lastResp.code = 400 /\ lastResp.error = "InvalidFormat" /\ evals = <<>>
    /\ (Len(lastResp.data) > 0 /\ Unnamed(lastResp.data) = 1..Len(lastResp.data)) =>
         lastResp.code = 400 /\ lastResp.projectResults = <<>> /\ evals = <<>>
    /\ \A k \in 1..Len(lastResp.projectResults) :
         lastResp.projectResults[k].projectName \in SheetGroups(lastResp.data)
    /\ Len(lastResp.projectResults) <= Cardinality(SheetGroups(lastResp.data))
    /\ Len(evals) <= Cardinality(SheetGroups(lastResp.data))
    /\ \A e \in Stored : \A k \in 1..Len(evals[e].excelData) :
         Has(evals[e].excelData[k], "ProjectName")

\* A sheet with rows of project Alpha around a row without a name: one
\* result and one evaluation, which holds the two named rows only.
C15_Witness ==
  /\ lastResp.op = "import" /\ lastResp.code = 201
  /\ Len(lastResp.data) = 3 /\ Unnamed(lastResp.data) = {2}
  /\ SheetGroups(lastResp.data) = {"Alpha"}
  /\ Len(lastResp.projectResults) = 1
  /\ Len(evals) = 1 /\ Len(evals[1].excelData) = 2

\* The team that owns a project.
OwningTeam(projectId) ==
  IF projectId = "pA" THEN "tA" ELSE IF projectId = "pB" THEN "tB" ELSE "none"

\* C16: every stored evaluation refers to an existing project and to the
\* team that owns it, and no step changes the project or the team of a
\* stored evaluation.
C16_ProjectAndTeamFixed ==
  /\ [](\A e \in Stored : /\ evals[e].project \in {"pA", "pB"}
                           /\ evals[e].team = OwningTeam(evals[e].project))
  /\ [][\A e \in Stored : /\ evals'[e].project = evals[e].project
                           /\ evals'[e].team = evals[e].team]_vars

\* An imported evaluation of Alpha, still of Alpha's team after both roles
\* have submitted and a further submission has been rejected.
C16_Witness ==
  \E e \in Stored :
     /\ evals[e].excelData # <<>>
     /\ evals[e].project = "pA" /\ evals[e].team = "tA"
     /\ evals[e].facultySubmitted /\ evals[e].reviewerSubmitted
     /\ lastResp.op = "submit" /\ lastResp.code = 400 /\ lastResp.eval = e

\* The status the flags of a document call for.
StatusOfFlags(doc) ==
  IF doc.facultySubmitted /\ doc.reviewerSubmitted THEN "completed"
  ELSE IF doc.facultySubmitted THEN "faculty-evaluated"
  ELSE IF doc.reviewerSubmitted THEN "reviewer-evaluated"
  ELSE "pending"

\* C17: after every submission answered 200 the status of the evaluation is
\* the one its flags call for, and a reviewer submission on an evaluation
\* the faculty has not submitted is accepted.
C17_StatusFollowsFlags ==
  /\ [](\A e \in Stored, rs \in RubricScores :
          (~evals[e].facultySubmitted /\ ~evals[e].reviewerSubmitted
            /\ Offending(evals[e], "reviewer", rs) = {})
             => Rejection(routes, evals[e], "reviewer", rs) = "none")
  /\ [][\A r \in inflight : Save(r) =>
          evals'[r.eval].status = StatusOfFlags(evals'[r.eval])]_vars

\* The reviewer's save has been answered 200 on an evaluation whose flags
\* are both true, and the status is reviewer-evaluated.
C17_Witness ==
  \E e \in Stored :
     /\ routes = "legacy"
     /\ lastResp.op = "submit" /\ lastResp.role = "reviewer" /\ lastResp.code = 200
     /\ lastResp.eval = e
     /\ evals[e].facultySubmitted /\ evals[e].reviewerSubmitted
     /\ evals[e].status = "reviewer-evaluated"

\* C18: whenever a role's flag is true, every rubric item of the evaluation
\* has that role's slot locked with a value.
C18_NoPartialSubmission ==
  \A e \in Stored, role \in Roles :
     Flag(evals[e], role) =>
       \A i \in Items(evals[e]) :
          Slot(evals[e], i, role).locked /\ Slot(evals[e], i, role).value # Null

\* One faculty request has been answered 200 on a created evaluation of two
\* items, nothing else has run, and the faculty slot of the second item is
\* still the schema default.
C18_Witness ==
  \E e \in Stored :
     /\ evals[e].excelData = <<>> /\ Len(evals[e].rubricItems) = 2
     /\ evals[e].facultySubmitted
     /\ succeeded[<<e, "faculty">>] = 1 /\ succeeded[<<e, "reviewer">>] = 0
     /\ inflight = {}
     /\ Slot(evals[e], 1, "faculty").locked
     /\ Slot(evals[e], 2, "faculty") = DefaultScore

\* The other role.
Other(role) == IF role = "faculty" THEN "reviewer" ELSE "faculty"

\* C19: the save of a submission of one role leaves the other role's flag
\* and every slot of the other role as they were, and leaves the
\* criterion and the ceilings of every rubric item as they were.
C19_TracksIndependent ==
  [][\A r \in inflight : Save(r) =>
       /\ Flag(evals'[r.eval], Other(r.role)) = Flag(evals[r.eval], Other(r.role))
       /\ Len(evals'[r.eval].rubricItems) = Len(evals[r.eval].rubricItems)
       /\ \A i \in Items(evals[r.eval]) :
            /\ Slot(evals'[r.eval], i, Other(r.role)) = Slot(evals[r.eval], i, Other(r.role))
            /\ evals'[r.eval].rubricItems[i].criterion = evals[r.eval].rubricItems[i].criterion
            /\ evals'[r.eval].rubricItems[i].maxScore = evals[r.eval].rubricItems[i].maxScore
            /\ Ceiling(evals'[r.eval], i, "faculty") = Ceiling(evals[r.eval], i, "faculty")
            /\ Ceiling(evals'[r.eval], i, "reviewer") = Ceiling(evals[r.eval], i, "reviewer")]_vars

\* Each role has saved once, the faculty last, and the reviewer's 7 is
\* still next to the faculty's 3 on the first item.
C19_Witness ==
  \E e \in Stored :
     /\ lastResp.op = "submit" /\ lastResp.role = "faculty" /\ lastResp.code = 200
     /\ lastResp.eval = e
     /\ succeeded[<<e, "faculty">>] = 1 /\ succeeded[<<e, "reviewer">>] = 1
     /\ evals[e].reviewerSubmitted
     /\ Slot(evals[e], 1, "reviewer").value = Num(7)
     /\ Slot(evals[e], 1, "faculty").value = Num(3)

\* The items of an imported evaluation the sheet gave a score.
SeededItems(doc) ==
  {i \in Items(doc) : /\ Slot(doc, i, "faculty").locked
                      /\ Slot(doc, i, "faculty").comments = "Imported from Excel"}

\* C20: an evaluation the import has created has hasPrefilledScores true
\* exactly when at least one of its items was seeded and locked from the
\* sheet, and its result reports the same value.
C20_PrefilledIffSeeded ==
  /\ \A e \in Stored : evals[e].hasPrefilledScores <=> SeededItems(evals[e]) # {}
  /\ \A k \in 1..Len(lastResp.projectResults) :
       lastResp.projectResults[k].success =>
         (lastResp.projectResults[k].hasPrefilledScores
            <=> SeededItems(evals[lastResp.projectResults[k].evaluationId]) # {})

\* An evaluation with one item the sheet scored and one it did not.
C20_Witness ==
  \E e \in Stored :
     /\ evals[e].hasPrefilledScores
     /\ Len(evals[e].rubricItems) = 2
     /\ SeededItems(evals[e]) = {2}
     /\ Slot(evals[e], 1, "faculty").value = Null

\* The identifying columns of a sheet.
Identifying == {"ProjectName", "StudentName", "SAPId"}

\* The cells of the rows of a group, as <<row, property>> positions.
GroupCells(doc) ==
  UNION {{<<r, k>> : k \in 1..Len(doc.excelData[r])} : r \in 1..Len(doc.excelData)}

\* The columns of a group other than the identifying ones: those with a
\* cell in some row of the group.
GroupColumns(doc) ==
  {doc.excelData[c[1]][c[2]].col : c \in GroupCells(doc)} \ Identifying

\* The reference table, read by the name of the column in any case.
ReferenceMax(col) ==
  CASE col \in {"Implementation Demonstration", "IMPLEMENTATION DEMONSTRATION"} -> 20
    [] col \in {"Project Recognition", "PROJECT RECOGNITION"} -> 10
    [] OTHER -> 5

\* Column a is left of column b in some row of the group.
LeftOf(doc, a, b) ==
  \E c \in GroupCells(doc), d \in GroupCells(doc) :
     /\ c[1] = d[1] /\ c[2] < d[2]
     /\ doc.excelData[c[1]][c[2]].col = a
     /\ doc.excelData[d[1]][d[2]].col = b

\* C21: the rubric items of an imported evaluation are the columns of its
\* group other than ProjectName, StudentName and SAPId, one item per
\* column and in column order, each with the maxScore of the reference
\* table for its name in any case and 5 for a name not in the table.
C21_ColumnsBecomeItems ==
  \A e \in Stored :
     evals[e].excelData # <<>> =>
       /\ {evals[e].rubricItems[i].criterion : i \in Items(evals[e])} = GroupColumns(evals[e])
       /\ Len(evals[e].rubricItems) = Cardinality(GroupColumns(evals[e]))
       /\ \A i \in Items(evals[e]), j \in Items(evals[e]) :
            i < j => ~LeftOf(evals[e], evals[e].rubricItems[j].criterion,
                                       evals[e].rubricItems[i].criterion)
       /\ \A i \in Items(evals[e]) :
            evals[e].rubricItems[i].maxScore = ReferenceMax(evals[e].rubricItems[i].criterion)

\* The first row of the group has a project name and nothing else, the
\* second has a Design cell: the evaluation has the five default items and
\* none for Design.
C21_Witness ==
  \E e \in Stored :
     /\ Len(evals[e].excelData) = 2
     /\ Keys(evals[e].excelData[1]) = <<"ProjectName">>
     /\ Keys(evals[e].excelData[2]) = <<"ProjectName", "Design">>
     /\ Len(evals[e].rubricItems) = 5
     /\ evals[e].rubricItems[1].criterion = "Implementation Demonstration"
     /\ \A i \in Items(evals[e]) : evals[e].rubricItems[i].criterion # "Design"

\* The item of an imported evaluation for a criterion, as a set.
ItemsFor(doc, col) == {i \in Items(doc) : doc.rubricItems[i].criterion = col}

\* The cells of a row under a column, as a set: empty for a blank cell.
CellsOf(row, col) == {row[k].cell : k \in {k \in 1..Len(row) : row[k].col = col}}

\* C22: in an imported evaluation, an item with a faculty value has a
\* number in the cell of its criterion in the first row of the group and
\* its value is that number clamped to the item's maxScore, whatever the
\* later rows hold; an item whose first-row cell is blank, the empty text
\* or a text that is not a number has faculty value null and is unlocked.
C22_FirstRowOnly ==
  \A e \in Stored : \A i \in Items(evals[e]) :
     evals[e].excelData # <<>> =>
       LET cells == CellsOf(evals[e].excelData[1], evals[e].rubricItems[i].criterion)
       IN IF \E c \in cells : c.kind = "number"
            THEN \A c \in cells :
                   /\ Slot(evals[e], i, "faculty").value =
                        Num(Clamped(c.num, evals[e].rubricItems[i].maxScore))
                   /\ Slot(evals[e], i, "faculty").locked
            ELSE /\ Slot(evals[e], i, "faculty").value = Null
                 /\ ~Slot(evals[e], i, "faculty").locked

\* The Design cell of the first row is the text "4pts" and the Design item
\* is stored with the faculty value 4, locked.
C22_Witness ==
  \E e \in Stored : \E i \in ItemsFor(evals[e], "Design") :
     /\ CellsOf(evals[e].excelData[1], "Design") = {TextCell("4pts")}
     /\ Slot(evals[e], i, "faculty").value = Num(4)
     /\ Slot(evals[e], i, "faculty").locked
     /\ Slot(evals[e], i, "faculty").comments = "Imported from Excel"

\* C23: under the validating routes a reviewer submission on an evaluation
\* whose facultySubmitted is false is answered 400 and changes nothing, no
\* such request reaches its save, a stored reviewerSubmitted comes with a
\* stored facultySubmitted, and no status is reviewer-evaluated.
C23_ReviewerAfterFaculty ==
  /\ [](routes = "validating" =>
          \A e \in Stored :
             /\ evals[e].status # "reviewer-evaluated"
             /\ evals[e].reviewerSubmitted => evals[e].facultySubmitted
             /\ ~evals[e].facultySubmitted =>
                  \A r \in inflight : ~(r.eval = e /\ r.role = "reviewer"))
  /\ [][routes = "validating" =>
          \A e \in Stored :
             ~evals[e].facultySubmitted =>
               /\ succeeded'[<<e, "reviewer">>] = succeeded[<<e, "reviewer">>]
               /\ \A r \in inflight' \ inflight : ~(r.eval = e /\ r.role = "reviewer")
               /\ (/\ lastResp' # lastResp
                   /\ lastResp'.op = "submit" /\ lastResp'.role = "reviewer"
                   /\ lastResp'.eval = e)
                    => /\ lastResp'.code = 400
                       /\ evals' = evals /\ inflight' = inflight]_vars

\* The reviewer has been answered 400 "faculty first" on an evaluation that
\* is still pending and unscored.
C23_Witness ==
  \E e \in Stored :
     /\ routes = "validating"
     /\ lastResp.op = "submit" /\ lastResp.role = "reviewer" /\ lastResp.eval = e
     /\ lastResp.code = 400 /\ lastResp.error = "FacultyFirst"
     /\ ~evals[e].facultySubmitted /\ ~evals[e].reviewerSubmitted
     /\ evals[e].status = "pending"
     /\ \A i \in Items(evals[e]) : Slot(evals[e], i, "reviewer").value = Null

\* C24: in every state where no submission request is in flight, the status
\* of every evaluation is the one its flags call for: pending for neither
\* flag, faculty-evaluated for facultySubmitted alone, reviewer-evaluated
\* for reviewerSubmitted alone, completed for both.
C24_StatusAgreesAtRest ==
  inflight = {} =>
    \A e \in Stored :
       /\ evals[e].status = "pending"
            <=> (~evals[e].facultySubmitted /\ ~evals[e].reviewerSubmitted)
       /\ evals[e].status = "faculty-evaluated"
            <=> (evals[e].facultySubmitted /\ ~evals[e].reviewerSubmitted)
       /\ evals[e].status = "reviewer-evaluated"
            <=> (~evals[e].facultySubmitted /\ evals[e].reviewerSubmitted)
       /\ evals[e].status = "completed"
            <=> (evals[e].facultySubmitted /\ evals[e].reviewerSubmitted)

\* Under the validating routes two faculty requests and one reviewer
\* request have all been answered 200, the faculty last; nothing is in
\* flight, both flags are true and the status is faculty-evaluated.
C24_Witness ==
  \E e \in Stored :
     /\ routes = "validating" /\ inflight = {}
     /\ succeeded[<<e, "faculty">>] = 2 /\ succeeded[<<e, "reviewer">>] = 1
     /\ lastResp.op = "submit" /\ lastResp.role = "faculty" /\ lastResp.code = 200
     /\ evals[e].facultySubmitted /\ evals[e].reviewerSubmitted
     /\ evals[e].status = "faculty-evaluated"

\* C25: every faculty or reviewer value stored on a rubric item that is not
\* null is at least 0 and at most the item's ceiling for the role.
C25_StoredValuesInRange ==
  \A e \in Stored, role \in Roles : \A i \in Items(evals[e]) :
     Slot(evals[e], i, role).value # Null =>
       /\ 0 <= Slot(evals[e], i, role).value[1]
       /\ Slot(evals[e], i, role).value[1] <= Ceiling(evals[e], i, role)

\* Under the validating routes a faculty submission has been answered 200
\* and the first item holds the faculty value -1, locked.
C25_Witness ==
  \E e \in Stored :
     /\ routes = "validating"
     /\ lastResp.op = "submit" /\ lastResp.role = "faculty" /\ lastResp.code = 200
     /\ lastResp.eval = e
     /\ Slot(evals[e], 1, "faculty").value = Num(-1)
     /\ Slot(evals[e], 1, "faculty").locked

\* The teams in the collection.
StoredTeams == 1..Len(teams)

\* The number of entries of a team's members array.
MemberCount(t) == Len(teams[t].members)

\* C26: no team has more members than its maxMembers, and a join that
\* finds its team full or not open is answered 400 and changes neither the
\* team nor the user.
C26_MembersWithinMax ==
  /\ [](\A t \in StoredTeams : MemberCount(t) <= teams[t].maxMembers)
  /\ [][\A r \in Pending :
          (/\ r.op \in {"join", "join-by-code"} /\ r.pc = "team"
           /\ r.team \in StoredTeams
           /\ (~teams[r.team].isOpen \/ MemberCount(r.team) >= teams[r.team].maxMembers)
           /\ CopiesIn(r, pending') < CopiesIn(r, pending))
            => /\ pending' = Minus(pending, r)
               /\ reply'.code = 400
               /\ teams' = teams /\ users' = users]_vars

\* No request is pending and the team of at most two members has three:
\* its leader and the two users whose joins both found one free place.
C26_Witness ==
  \E t \in StoredTeams :
     /\ pending = EmptyBag
     /\ teams[t].maxMembers = 2
     /\ teams[t].members = <<"u1", "u2", "u3">>
     /\ users["u2"].team = t /\ users["u3"].team = t

\* The positions of a user in the members array of a team.
PositionsOf(t, u) == {k \in 1..MemberCount(t) : teams[t].members[k] = u}

\* C27: whenever no team request is between two awaits, a user's team is T
\* exactly when the user is in T's members, and a user is in a members
\* array at most once.
C27_MembershipConsistent ==
  pending = EmptyBag =>
    \A u \in UserIds, t \in StoredTeams :
       /\ users[u].team = t <=> PositionsOf(t, u) # {}
       /\ Cardinality(PositionsOf(t, u)) <= 1

\* No request is pending and u2, whose two joins overlapped, is a member
\* of both teams while its team is one of them.
C27_Witness ==
  /\ pending = EmptyBag
  /\ Len(teams) = 2
  /\ PositionsOf(1, "u2") # {} /\ PositionsOf(2, "u2") # {}
  /\ users["u2"].team \in {1, 2}

\* C28: the leader of every team is in its members; a team enters the
\* collection with its leader as its only member; a leave request of the
\* leader or of a user who is not a member is answered 400 and changes no
\* team, no user and no pending request.
C28_LeaderStaysMember ==
  /\ [](\A t \in StoredTeams : PositionsOf(t, teams[t].leader) # {})
  /\ [][Len(teams') > Len(teams) =>
          /\ Len(teams') = Len(teams) + 1
          /\ teams'[Len(teams')].members = <<teams'[Len(teams')].leader>>]_vars
  /\ [][\A u \in UserIds, t \in StoredTeams :
          (Leave(u, t) /\ (teams[t].leader = u \/ PositionsOf(t, u) = {}))
            => /\ reply'.code = 400
               /\ teams' = teams /\ users' = users /\ pending' = pending]_vars

\* The leader of a team of two has asked to leave and was answered 400;
\* both members are still there.
C28_Witness ==
  \E t \in StoredTeams :
     /\ reply.code = 400 /\ reply.message = "LeaderCannotLeave"
     /\ teams[t].leader = "u1"
     /\ teams[t].members = <<"u1", "u2">>
     /\ users["u1"].team = t
     /\ pending = EmptyBag

\* The Project documents that refer to a team.
ProjectsOf(t) == {p \in 1..Len(projects) : projects[p].team = t}

\* C30: at most one Project document refers to a team; whenever no project
\* request is between two awaits the team's project reference is that
\* document, or empty when there is none; a Project document is created
\* for a team its requester leads; and a creation request of a user whose
\* teams all have a project is answered 400 and creates nothing.
C30_OneProjectPerTeam ==
  /\ [](\A t \in StoredTeams :
          /\ Cardinality(ProjectsOf(t)) <= 1
          /\ (\A r \in Pending : r.op # "project")
               => IF ProjectsOf(t) = {} THEN teams[t].project = NoProject
                                        ELSE teams[t].project \in ProjectsOf(t))
  /\ [][Len(projects') > Len(projects) =>
          /\ Len(projects') = Len(projects) + 1
          /\ projects'[Len(projects')].team \in StoredTeams
          /\ \E r \in Pending :
               /\ r.op = "project" /\ CopiesIn(r, pending') < CopiesIn(r, pending)
               /\ teams[projects'[Len(projects')].team].leader = r.user]_vars
  /\ [][\A u \in UserIds :
          (/\ CreateProject(u)
           /\ \E t \in StoredTeams : teams[t].leader = u
           /\ \A t \in StoredTeams : teams[t].leader = u => teams[t].project # NoProject)
            => /\ reply'.code = 400
               /\ projects' = projects /\ teams' = teams /\ pending' = pending]_vars

\* No request is pending, two Project documents refer to the first team,
\* and the team's reference is the later one.
C30_Witness ==
  /\ pending = EmptyBag
  /\ Len(teams) >= 1
  /\ ProjectsOf(1) = {1, 2}
  /\ teams[1].project = 2
  /\ reply.code = 201

\* The stored reset tokens of a user, in a Token collection.
TokensOf(toks, u) == {k \in 1..Len(toks) : ~toks[k].deleted /\ toks[k].userId = u}

\* C29: when a forgot-password request is answered 200 its user has exactly
\* one stored reset token; a reset request whose token is not stored is
\* answered 400 and changes nothing; a password changes only while a
\* stored token of its user exists, and each Token document serves at
\* most one reset: the reset that deletes it is the only one it started.
C29_TokensSingleUse ==
  /\ [][\A r \in Pending :
          (/\ r.op = "forgot" /\ r.pc = "email"
           /\ pending' = Minus(pending, r) /\ reply'.code = 200)
            => Cardinality(TokensOf(tokens', r.user)) = 1]_vars
  /\ [][\A token \in 1..MaxTokens, password \in {"p1", "p2"} :
          (/\ ResetPassword(token, password)
           /\ \A k \in 1..Len(tokens) :
                tokens[k].token = Sha256(token) => tokens[k].deleted)
            => /\ reply'.code = 400 /\ reply'.message = "InvalidToken"
               /\ users' = users /\ pending' = pending /\ tokens' = tokens]_vars
  /\ [][\A u \in UserIds :
          users'[u].password # users[u].password => TokensOf(tokens, u) # {}]_vars
  /\ [](\A k \in 1..MaxTokens :
          Copies({q \in Pending : q.op = "reset" /\ q.n = k}) <= 1)

\* Two forgot-password requests for u1 have both been answered, no request
\* is pending, and both their tokens are stored.
C29_Witness ==
  /\ pending = EmptyBag
  /\ reply.code = 200
  /\ Len(tokens) = 2
  /\ TokensOf(tokens, "u1") = {1, 2}

====
